---- MODULE Spec2Model ----
(***************************************************************************)
(* Ground-truth handling of pyslam (ground_truth.py): the timestamp        *)
(* associator, the association sidecar, the frame accessor, the scale      *)
(* reconstructor and the trajectory extractor.                             *)
(*                                                                         *)
(* Python values are modelled as follows.  A list or tuple is a sequence;  *)
(* Python's 0-based index i is position i + 1 of the sequence.  A dict is  *)
(* a function whose DOMAIN is the key set.  Timestamps and coordinates are *)
(* floats in the code; here they are integers counted in a fixed unit, so  *)
(* that differences and comparisons are exact.                             *)
(***************************************************************************)
EXTENDS Integers, Sequences, FiniteSets, TLC

VARIABLES
    \* ---- associate(first_list, second_list, offset, max_difference) ----
    first_list,               \* timestamps of the primary records
    second_list,              \* timestamps of the secondary records
    offset,
    max_difference,
    assoc_type,               \* "tum" | "euroc": whose associate is running
    pc,                       \* "idle" | "start" | "scan" | "done"
    potential_matches,        \* sorted list of <<diff, ia, ib>>
    scan_pos,                 \* candidates of potential_matches consumed so far
    matches,                  \* dict ia -> value tuple
    first_flag,
    second_flag,
    num_missing_associations,
    \* ---- one opened ground-truth object and the calls made on it ----
    gt,                       \* the object: type, start_frame_id, data, ...
    last,                     \* the last call made on gt and its outcome
    snapshot,                 \* the trajectory kept by a test before it removes an association
    \* ---- one dataset location on disk ----
    src,                      \* the source files: primary stamps and ground-truth lines
    sidecar,                  \* the association sidecar file
    builder,                  \* the object whose constructor wrote the sidecar
    \* ---- two constructors running over that location at the same time ----
    inst,                     \* each constructor's position and what it holds
    log                       \* the final positions of the rounds before this one

assoc_vars == <<first_list, second_list, offset, max_difference, assoc_type, pc,
                potential_matches, scan_pos, matches, first_flag, second_flag,
                num_missing_associations>>

recon_vars == <<gt, last, snapshot>>

disk_vars == <<src, sidecar, builder>>

race_vars == <<inst, log>>

vars == <<assoc_vars, recon_vars, disk_vars, race_vars>>

\* ------------------------------------------------------------------ bounds
MaxLen == 2
MaxTime == 2
MaxOffset == 1
MaxDiff == 2
MaxSamples == 6
MaxStart == 1
MaxGaps == 1
MaxFiles == 2
MaxSkew == 1
MaxQuery == 1
MaxRounds == 1

\* ---------------------------------------------------------- Python values
None == "None"

Abs(x) == IF x < 0 THEN -x ELSE x

EmptyDict == [k \in {} |-> None]

\* d[k] = v on a dict
DictSet(d, k, v) == [x \in DOMAIN d \cup {k} |-> IF x = k THEN v ELSE d[x]]

\* A Python tuple / list value: the container kind and its items.
PyTuple(items) == [py |-> "tuple", items |-> items]
PyList(items) == [py |-> "list", items |-> items]

\* An attribute that holds None or an array
NoArray == [none |-> TRUE]
Array(items) == [none |-> FALSE, items |-> items]

\* v[i] for a tuple or list value, i >= 0 within range
Item(v, i) == v.items[i + 1]

\* Sequences of length <= n over S
SeqsUpTo(S, n) == UNION {[1..k -> S] : k \in 0..n}

\* ------------------------------------------------------------- associate
\* abs(float(a[0]) - (float(b[0]) + offset))
TimeDiff(a, b, off) == Abs(a - (b + off))

\* Python's tuple comparison on (diff, ia, ib)
TupleLess(c, d) ==
    \/ c[1] < d[1]
    \/ c[1] = d[1] /\ c[2] < d[2]
    \/ c[1] = d[1] /\ c[2] = d[2] /\ c[3] < d[3]

\* mutant: the threshold test admits a difference equal to max_difference
PotentialMatches_Inclusive(first, second, off, maxd) ==
    LET n == Len(first)
        m == Len(second)
        all == [q \in 1..(n * m) |->
                  LET ia == (q - 1) \div m
                      ib == (q - 1) % m
                  IN <<TimeDiff(first[ia + 1], second[ib + 1], off), ia, ib>>]
        Keep(c) == c[1] <= maxd
    IN SelectSeq(all, Keep)

\* The list comprehension: ia outer, ib inner, kept when below the threshold.
PotentialMatches(first, second, off, maxd) ==
    LET n == Len(first)
        m == Len(second)
        all == [q \in 1..(n * m) |->
                  LET ia == (q - 1) \div m
                      ib == (q - 1) % m
                  IN <<TimeDiff(first[ia + 1], second[ib + 1], off), ia, ib>>]
        Keep(c) == c[1] < maxd
    IN SelectSeq(all, Keep)

RECURSIVE InsertSorted(_, _)
InsertSorted(s, c) ==
    IF s = <<>> THEN <<c>>
    ELSE IF TupleLess(c, Head(s)) THEN <<c>> \o s
    ELSE <<Head(s)>> \o InsertSorted(Tail(s), c)

\* mutant: the candidates are scanned in generation order, unsorted
SortMatches_Unsorted(s) == s

\* list.sort() on a list of tuples: ascending in Python's tuple order
RECURSIVE SortMatches(_)
SortMatches(s) ==
    IF s = <<>> THEN <<>>
    ELSE InsertSorted(SortMatches(Tail(s)), Head(s))

\* The value stored for a claimed pair: TUM keeps the two timestamps too.
MatchValue(type, first, second, c) ==
    IF type = "tum"
    THEN PyTuple(<<c[3], c[1], first[c[2] + 1], second[c[3] + 1]>>)
    ELSE PyTuple(<<c[3], c[1]>>)

\* mutant: only the primary flag is tested
CanClaim_FirstOnly(ff, sf, c) == ~ff[c[2] + 1]

\* if first_flag[ia] is False and second_flag[ib] is False
CanClaim(ff, sf, c) == ~ff[c[2] + 1] /\ ~sf[c[3] + 1]

\* mutant: a rejected pair still sets both flags
ScanStep_FlagsAlways(type, first, second, st, c) ==
    IF CanClaim(st.first_flag, st.second_flag, c)
    THEN [first_flag |-> [st.first_flag EXCEPT ![c[2] + 1] = TRUE],
          second_flag |-> [st.second_flag EXCEPT ![c[3] + 1] = TRUE],
          matches |-> DictSet(st.matches, c[2], MatchValue(type, first, second, c))]
    ELSE [st EXCEPT !.first_flag[c[2] + 1] = TRUE, !.second_flag[c[3] + 1] = TRUE]

\* One iteration of the scan loop over potential_matches.
ScanStep(type, first, second, st, c) ==
    IF CanClaim(st.first_flag, st.second_flag, c)
    THEN [first_flag |-> [st.first_flag EXCEPT ![c[2] + 1] = TRUE],
          second_flag |-> [st.second_flag EXCEPT ![c[3] + 1] = TRUE],
          matches |-> DictSet(st.matches, c[2], MatchValue(type, first, second, c))]
    ELSE st

ScanInit(first, second) ==
    [first_flag |-> [i \in 1..Len(first) |-> FALSE],
     second_flag |-> [i \in 1..Len(second) |-> FALSE],
     matches |-> EmptyDict]

RECURSIVE ScanAll(_, _, _, _, _)
ScanAll(type, first, second, st, cands) ==
    IF cands = <<>> THEN st
    ELSE ScanAll(type, first, second,
                 ScanStep(type, first, second, st, Head(cands)), Tail(cands))

\* len([(ia, a) for ia, a in enumerate(first_list) if first_flag[ia] is False])
NumMissing(ff) == Cardinality({i \in 1..Len(ff) : ~ff[i]})

\* The whole of associate(): the returned dict.
Associate(type, first, second, off, maxd) ==
    ScanAll(type, first, second, ScanInit(first, second),
            SortMatches(PotentialMatches(first, second, off, maxd))).matches

\* ------------------------------------------- associate, statement by statement
\* The worked example of the documentation, in units of 0.01:
\* primary [0.0, 1.0, 2.1], secondary [0.05, 1.02, 5.0], max_difference 0.1.
ExampleInput ==
    [first |-> <<0, 100, 210>>, second |-> <<5, 102, 500>>, off |-> 0, maxd |-> 10]

AssocInputs ==
    {[first |-> f, second |-> s, off |-> o, maxd |-> d] :
        f \in SeqsUpTo(0..MaxTime, MaxLen), s \in SeqsUpTo(0..MaxTime, MaxLen),
        o \in 0..MaxOffset, d \in 1..MaxDiff}
    \cup {ExampleInput}

\* the associator at rest (the other specifications leave it alone)
AssocIdle ==
    /\ first_list = <<>>
    /\ second_list = <<>>
    /\ offset = 0
    /\ max_difference = 0
    /\ assoc_type = "tum"
    /\ pc = "idle"
    /\ potential_matches = <<>>
    /\ scan_pos = 0
    /\ matches = EmptyDict
    /\ first_flag = <<>>
    /\ second_flag = <<>>
    /\ num_missing_associations = 0

\* no ground-truth object is open (the associator's specification)
ReconIdle ==
    /\ gt = [type |-> "none"]
    /\ last = [op |-> "none"]
    /\ snapshot = [taken |-> FALSE]

\* no dataset location is modelled
DiskIdle ==
    /\ src = [type |-> "none"]
    /\ sidecar = [exists |-> FALSE]
    /\ builder = [type |-> "none"]

\* no constructor is running
RaceIdle ==
    /\ inst = <<>>
    /\ log = {}

AssocInit ==
    /\ ReconIdle
    /\ DiskIdle
    /\ RaceIdle
    /\ \E in \in AssocInputs :
          /\ first_list = in.first
          /\ second_list = in.second
          /\ offset = in.off
          /\ max_difference = in.maxd
    /\ assoc_type \in {"tum", "euroc"}
    /\ pc = "start"
    /\ potential_matches = <<>>
    /\ scan_pos = 0
    /\ matches = EmptyDict
    /\ first_flag = <<>>
    /\ second_flag = <<>>
    /\ num_missing_associations = 0

\* potential_matches = [...]; potential_matches.sort(); matches = {}; the flags
BuildCandidates ==
    /\ pc = "start"
    /\ potential_matches' =
          SortMatches(PotentialMatches(first_list, second_list, offset, max_difference))
    /\ matches' = ScanInit(first_list, second_list).matches
    /\ first_flag' = ScanInit(first_list, second_list).first_flag
    /\ second_flag' = ScanInit(first_list, second_list).second_flag
    /\ scan_pos' = 0
    /\ pc' = "scan"
    /\ UNCHANGED <<first_list, second_list, offset, max_difference, assoc_type,
                   num_missing_associations, recon_vars, disk_vars, race_vars>>

\* for diff, ia, ib in potential_matches: ... (one iteration)
ClaimNext ==
    /\ pc = "scan"
    /\ scan_pos < Len(potential_matches)
    /\ LET st == ScanStep(assoc_type, first_list, second_list,
                          [first_flag |-> first_flag, second_flag |-> second_flag,
                           matches |-> matches],
                          potential_matches[scan_pos + 1])
       IN /\ first_flag' = st.first_flag
          /\ second_flag' = st.second_flag
          /\ matches' = st.matches
    /\ scan_pos' = scan_pos + 1
    /\ UNCHANGED <<first_list, second_list, offset, max_difference, assoc_type, pc,
                   potential_matches, num_missing_associations, recon_vars, disk_vars, race_vars>>

\* the loop is exhausted: count the missing associations and return matches
CountMissing ==
    /\ pc = "scan"
    /\ scan_pos = Len(potential_matches)
    /\ num_missing_associations' = NumMissing(first_flag)
    /\ pc' = "done"
    /\ UNCHANGED <<first_list, second_list, offset, max_difference, assoc_type,
                   potential_matches, scan_pos, matches, first_flag, second_flag,
                   recon_vars, disk_vars, race_vars>>

AssocNext == BuildCandidates \/ ClaimNext \/ CountMissing

SpecAssoc == AssocInit /\ [][AssocNext]_vars

\* ----------------------------------------------------- the ground-truth object
kScaleSimple == 1
kScaleKitti == 1
kScaleTum == 1
kScaleEuroc == 1

\* self.scale, set by each constructor
Scale(type) ==
    CASE type = "simple" -> kScaleSimple
      [] type = "kitti" -> kScaleKitti
      [] type = "tum" -> kScaleTum
      [] type = "euroc" -> kScaleEuroc

Associated(type) == type \in {"tum", "euroc"}

\* The outcome of a call: the exception it raised (None when it returned) and
\* the value it returned.
Return(v) == [raised |-> None, value |-> v]
Raise(e) == [raised |-> e, value |-> None]

\* lst[i] on a Python list: a negative index counts from the end
ListGet(lst, i) ==
    IF 0 <= i /\ i < Len(lst) THEN Return(lst[i + 1])
    ELSE IF i < 0 /\ -i <= Len(lst) THEN Return(lst[Len(lst) + i + 1])
    ELSE Raise("IndexError")

\* d[k] on a dict
DictGet(d, k) == IF k \in DOMAIN d THEN Return(d[k]) ELSE Raise("KeyError")

\* np.sqrt, on the squares the model's records produce
Sqrt(n) == CHOOSE r \in 0..n : r * r <= n /\ n < (r + 1) * (r + 1)

\* getDataLine: the line it returns, and the index it hands to self.data
\* (reads; empty when the map lookup failed before).
\* GroundTruth.getDataLine adds start_frame_id; the TUM and EuRoC overrides go
\* through association_matches and add nothing.
GetDataLine(g, frame_id) ==
    IF Associated(g.type)
    THEN LET e == DictGet(g.association_matches, frame_id)
         IN IF e.raised # None
            THEN [raised |-> e.raised, value |-> None, reads |-> <<>>]
            ELSE LET r == ListGet(g.data, Item(e.value, 0))
                 IN [raised |-> r.raised, value |-> r.value,
                     reads |-> <<Item(e.value, 0)>>]
    ELSE LET r == ListGet(g.data, frame_id + g.start_frame_id)
         IN [raised |-> r.raised, value |-> r.value,
             reads |-> <<frame_id + g.start_frame_id>>]

\* the token positions of x, y, z in a line (0-based)
PosTokens(type) == IF type = "kitti" THEN <<3, 7, 11>> ELSE <<1, 2, 3>>

\* getTimePoseAndAbsoluteScale(frame_id) of the four subclasses.  The outcome
\* also lists, in call order, the arguments handed to getDataLine (args) and
\* the indices handed to self.data (reads).
GetTimePoseAndAbsoluteScale(g, frame_id_arg) ==
    LET frame_id == frame_id_arg + g.start_frame_id
        prev == GetDataLine(g, frame_id - 1)
        cur == GetDataLine(g, frame_id)
        tok == PosTokens(g.type)
        sc == Scale(g.type)
        x_prev == sc * prev.value[tok[1] + 1]
        y_prev == sc * prev.value[tok[2] + 1]
        z_prev == sc * prev.value[tok[3] + 1]
        x == sc * cur.value[tok[1] + 1]
        y == sc * cur.value[tok[2] + 1]
        z == sc * cur.value[tok[3] + 1]
        abs_scale == Sqrt((x - x_prev) * (x - x_prev) + (y - y_prev) * (y - y_prev)
                          + (z - z_prev) * (z - z_prev))
        stamp == IF g.type = "kitti" THEN ListGet(g.data_timestamps, frame_id)
                 ELSE Return(cur.value[1])
    IN IF prev.raised # None
       THEN [raised |-> prev.raised, value |-> None,
             args |-> <<frame_id - 1>>, reads |-> prev.reads]
       ELSE IF cur.raised # None
       THEN [raised |-> cur.raised, value |-> None,
             args |-> <<frame_id - 1, frame_id>>, reads |-> prev.reads \o cur.reads]
       ELSE IF stamp.raised # None
       THEN [raised |-> stamp.raised, value |-> None,
             args |-> <<frame_id - 1, frame_id>>, reads |-> prev.reads \o cur.reads]
       ELSE [raised |-> None, value |-> <<stamp.value, x, y, z, abs_scale>>,
             args |-> <<frame_id - 1, frame_id>>, reads |-> prev.reads \o cur.reads]

\* mutant: the handler catches an index out of range only
Catches_IndexErrorOnly(e) == e = "IndexError"

\* the bare "except:" of getFull3dTrajectory
Catches(e) == TRUE

\* mutant: the loop runs over every sample
FrameRange_All(num_lines) == [lo |-> 0, hi |-> num_lines - 1]

\* range(1, num_lines - 1)
FrameRange(num_lines) == [lo |-> 1, hi |-> num_lines - 2]

\* the loop of getFull3dTrajectory from index ii on
RECURSIVE TrajectoryLoop(_, _, _, _)
TrajectoryLoop(g, ii, hi, acc) ==
    IF ii > hi THEN acc
    ELSE LET r == GetTimePoseAndAbsoluteScale(g, ii)
         IN IF r.raised = None
            THEN TrajectoryLoop(g, ii + 1, hi,
                    [acc EXCEPT !.timestamps = Append(@, r.value[1]),
                                !.trajectory = Append(@, <<r.value[2], r.value[3], r.value[4]>>)])
            ELSE IF Catches(r.raised)
            THEN TrajectoryLoop(g, ii + 1, hi, acc)
            ELSE [acc EXCEPT !.raised = r.raised]

\* getFull3dTrajectory(): the two arrays and the exception that left it, if any
GetFull3dTrajectory(g) ==
    LET range == FrameRange(Len(g.data))
    IN TrajectoryLoop(g, range.lo, range.hi,
                      [raised |-> None, timestamps |-> <<>>, trajectory |-> <<>>])

\* the loop of convertToSimpleXYZ from index ii on: an exception leaves it
RECURSIVE ExportLoop(_, _, _)
ExportLoop(g, ii, acc) ==
    IF ii >= Len(g.data) THEN acc
    ELSE LET r == GetTimePoseAndAbsoluteScale(g, ii)
             seen == [acc EXCEPT !.args = @ \o r.args, !.reads = @ \o r.reads]
         IN IF r.raised # None
            THEN [seen EXCEPT !.raised = r.raised]
            ELSE LET scale == IF ii = 0 THEN 1 ELSE r.value[5]
                 IN ExportLoop(g, ii + 1,
                       [seen EXCEPT !.lines = Append(@,
                           <<r.value[1], r.value[2], r.value[3], r.value[4], scale>>)])

\* convertToSimpleXYZ(): the lines written to the file
ConvertToSimpleXYZ(g) ==
    ExportLoop(g, 0, [raised |-> None, lines |-> <<>>, args |-> <<>>, reads |-> <<>>])

\* mutant: the scan keeps the last of several equal minima
RECURSIVE ArgMinScan_Last(_, _, _)
ArgMinScan_Last(d, i, best) ==
    IF i > Len(d) THEN best
    ELSE ArgMinScan_Last(d, i + 1, IF d[i] <= d[best] THEN i ELSE best)

\* the scan of np.argmin from position i on: best is replaced by a strictly
\* smaller element only, so the first of several equal minima is kept
RECURSIVE ArgMinScan(_, _, _)
ArgMinScan(d, i, best) ==
    IF i > Len(d) THEN best
    ELSE ArgMinScan(d, i + 1, IF d[i] < d[best] THEN i ELSE best)

\* np.argmin(d), 0-based: an empty array raises ValueError
ArgMin(d) ==
    IF Len(d) = 0 THEN Raise("ValueError") ELSE Return(ArgMinScan(d, 2, 1) - 1)

\* self.timestamps[np.argmin(np.abs(self.timestamps - timestamp))]
ClosestIn(ts, timestamp) ==
    LET at == ArgMin([i \in 1..Len(ts) |-> Abs(ts[i] - timestamp)])
    IN IF at.raised # None THEN Raise(at.raised) ELSE Return(ts[at.value + 1])

\* the lookup on the object as it is after the optional build: the outcome,
\* whether getFull3dTrajectory was called (built) and the object (self)
ClosestOutcome(obj, built, timestamp) ==
    [built |-> built, self |-> obj,
     raised |-> ClosestIn(obj.timestamps.items, timestamp).raised,
     value |-> ClosestIn(obj.timestamps.items, timestamp).value]

\* the rest of getClosestTimestamp after self.getFull3dTrajectory() ended
\* with outcome full
ClosestAfterBuild(g, full, timestamp) ==
    IF full.raised # None
    THEN [built |-> TRUE, self |-> g, raised |-> full.raised, value |-> None]
    ELSE ClosestOutcome([g EXCEPT !.trajectory = Array(full.trajectory),
                                  !.timestamps = Array(full.timestamps)],
                        TRUE, timestamp)

\* getClosestTimestamp(timestamp)
GetClosestTimestamp(g, timestamp) ==
    IF g.timestamps.none
    THEN ClosestAfterBuild(g, GetFull3dTrajectory(g), timestamp)
    ELSE ClosestOutcome(g, FALSE, timestamp)

\* ------------------------------------------------ the records of the model
Triangle(i) == (i * (i + 1)) \div 2

\* position of record i: the records lie on one line, record i at distance
\* 3 * i from record i - 1
PosOf(i) == <<Triangle(i), 2 * Triangle(i), 2 * Triangle(i)>>
StampOf(i) == 10 * (i + 1)
KittiStampOf(i) == 100 + i

\* the timestamps a caller asks about: halfway between two records of the
\* file, and one KITTI time
Queries == {StampOf(i) + 5 : i \in 1..MaxQuery} \cup {KittiStampOf(1)}

\* line i of the ground-truth file, split into tokens
Line(type, i) ==
    IF type = "kitti"
    THEN <<1, 0, 0, PosOf(i)[1], 0, 1, 0, PosOf(i)[2], 0, 0, 1, PosOf(i)[3]>>
    ELSE <<StampOf(i), PosOf(i)[1], PosOf(i)[2], PosOf(i)[3]>>

\* an association map over the primary indices in dom: primary record ia
\* carries the timestamp of secondary record ia and is matched to it
AlignedMatches(type, dom) ==
    [ia \in dom |-> MatchValue(type, [i \in 1..MaxSamples |-> StampOf(i - 1)],
                               [i \in 1..MaxSamples |-> StampOf(i - 1)],
                               <<0, ia, ia>>)]

\* the key sets of the maps: all of 0..p-1 but at most MaxGaps indices
KeySets(p) ==
    {(0..(p - 1)) \ gaps : gaps \in {h \in SUBSET (0..(p - 1)) : Cardinality(h) <= MaxGaps}}

GroundTruths ==
    {[type |-> type, start_frame_id |-> s,
      data |-> [i \in 1..n |-> Line(type, i - 1)],
      data_timestamps |-> IF type = "kitti" THEN [i \in 1..n |-> KittiStampOf(i - 1)]
                          ELSE <<>>,
      num_frames |-> 0, association_matches |-> EmptyDict,
      trajectory |-> NoArray, timestamps |-> NoArray] :
        type \in {"simple", "kitti"}, s \in 0..MaxStart, n \in 1..MaxSamples}
    \cup
    {[type |-> type, start_frame_id |-> s,
      data |-> [i \in 1..n |-> Line(type, i - 1)],
      data_timestamps |-> <<>>,
      num_frames |-> p[1], association_matches |-> AlignedMatches(type, p[2]),
      trajectory |-> NoArray, timestamps |-> NoArray] :
        type \in {"tum", "euroc"}, s \in 0..MaxStart, n \in 1..MaxSamples,
        p \in {q \in (1..MaxSamples) \X SUBSET (0..(MaxSamples - 1)) :
                  q[2] \in KeySets(q[1])}}

ReconInit ==
    /\ AssocIdle
    /\ DiskIdle
    /\ RaceIdle
    /\ gt \in GroundTruths
    /\ last = [op |-> "none"]
    /\ snapshot = [taken |-> FALSE]

\* a caller asks for one frame
CallGetTimePoseAndAbsoluteScale ==
    /\ \E frame_id \in (-1)..MaxSamples :
          last' = [op |-> "getTimePoseAndAbsoluteScale", frame_id |-> frame_id,
                   out |-> GetTimePoseAndAbsoluteScale(gt, frame_id)]
    /\ UNCHANGED <<gt, snapshot, assoc_vars, disk_vars, race_vars>>

\* a caller asks for the full trajectory; the arrays are kept on the object
CallGetFull3dTrajectory ==
    /\ LET out == GetFull3dTrajectory(gt)
       IN /\ gt' = IF out.raised = None
                   THEN [gt EXCEPT !.trajectory = Array(out.trajectory),
                                   !.timestamps = Array(out.timestamps)]
                   ELSE gt
          /\ last' = [op |-> "getFull3dTrajectory", out |-> out]
    /\ UNCHANGED <<snapshot, assoc_vars, disk_vars, race_vars>>

\* a caller exports the trajectory
CallConvertToSimpleXYZ ==
    /\ last' = [op |-> "convertToSimpleXYZ", out |-> ConvertToSimpleXYZ(gt)]
    /\ UNCHANGED <<gt, snapshot, assoc_vars, disk_vars, race_vars>>

\* a caller asks for the timestamp closest to a query; the arrays built on
\* the way are kept on the object
CallGetClosestTimestamp ==
    /\ \E timestamp \in Queries :
          LET out == GetClosestTimestamp(gt, timestamp)
          IN /\ gt' = out.self
             /\ last' = [op |-> "getClosestTimestamp", timestamp |-> timestamp,
                         raised |-> out.raised, value |-> out.value,
                         built |-> out.built]
    /\ UNCHANGED <<snapshot, assoc_vars, disk_vars, race_vars>>

\* A test keeps the trajectory it extracted from a complete association map
\* and pops the association of primary index k.
RemoveAssociation ==
    /\ Associated(gt.type)
    /\ ~gt.timestamps.none
    /\ ~snapshot.taken
    /\ DOMAIN gt.association_matches = 0..(gt.num_frames - 1)
    /\ \E k \in DOMAIN gt.association_matches :
          /\ snapshot' = [taken |-> TRUE, k |-> k,
                          entry |-> gt.association_matches[k],
                          timestamps |-> gt.timestamps.items,
                          trajectory |-> gt.trajectory.items]
          /\ gt' = [gt EXCEPT !.association_matches =
                       [ia \in DOMAIN @ \ {k} |-> @[ia]]]
          /\ last' = [op |-> "removeAssociation", k |-> k]
    /\ UNCHANGED <<assoc_vars, disk_vars, race_vars>>

ReconNext ==
    \/ CallGetTimePoseAndAbsoluteScale
    \/ CallGetFull3dTrajectory
    \/ CallConvertToSimpleXYZ
    \/ CallGetClosestTimestamp
    \/ RemoveAssociation

SpecRecon == ReconInit /\ [][ReconNext]_vars

\* ------------------------------------------------------- the sidecar file
kMaxDifference == 25000000

DigitChars == <<"0", "1", "2", "3", "4", "5", "6", "7", "8", "9">>

\* the decimal digits of a natural number, most significant first
RECURSIVE DecimalText(_)
DecimalText(n) ==
    IF n < 10 THEN <<DigitChars[n + 1]>>
    ELSE DecimalText(n \div 10) \o <<DigitChars[(n % 10) + 1]>>

\* mutant: numbers are written with their last digit rounded away
NumberText_Rounded(n) == DecimalText((n \div 10) * 10)

\* the text json.dump writes for a number, and for a key of the dict
NumberText(n) == DecimalText(n)

DigitValue(c) == CHOOSE d \in 0..9 : DigitChars[d + 1] = c

\* the number json.load and int() read from a decimal text
RECURSIVE ParseNumber(_)
ParseNumber(t) ==
    IF Len(t) = 1 THEN DigitValue(t[1])
    ELSE 10 * ParseNumber(SubSeq(t, 1, Len(t) - 1)) + DigitValue(t[Len(t)])

\* json.dump(association_matches, f): an object whose keys are the decimal
\* texts of the dict's keys and whose values are arrays, one per tuple
JsonDump(m) ==
    [ks \in {NumberText(k) : k \in DOMAIN m} |->
        LET k == CHOOSE k \in DOMAIN m : NumberText(k) = ks
        IN [j \in 1..Len(m[k].items) |-> NumberText(m[k].items[j])]]

\* json.load(f): a dict with str keys whose values are lists
JsonLoad(text) ==
    [ks \in DOMAIN text |-> PyList([j \in 1..Len(text[ks]) |-> ParseNumber(text[ks][j])])]

\* {int(k): v for k, v in data.items()}
IntKeys(d) ==
    [k \in {ParseNumber(ks) : ks \in DOMAIN d} |->
        d[CHOOSE ks \in DOMAIN d : ParseNumber(ks) = k]]

\* mutant: the sidecar is never found
SidecarExists_Never(sc) == FALSE

\* os.path.exists(associations_file)
SidecarExists(sc) == sc.exists

\* a[0] of every record of a list
Stamps(lines) == [i \in 1..Len(lines) |-> lines[i][1]]

\* __init__ of TumGroundTruth / EurocGroundTruth over the files at the
\* location: the object built, the sidecar left behind, and whether the
\* associations were computed
OpenDataset(files, sc) ==
    IF ~SidecarExists(sc)
    THEN LET m == Associate(files.type, files.primary, Stamps(files.data), 0,
                            kMaxDifference)
         IN [computed |-> TRUE, association_matches |-> m,
             sidecar |-> [exists |-> TRUE, text |-> JsonDump(m)]]
    ELSE [computed |-> FALSE,
          association_matches |-> IntKeys(JsonLoad(sc.text)),
          sidecar |-> sc]

\* the files of a location: n_primary primary stamps, each skew after the
\* ground-truth line of the same index, and n_data ground-truth lines
Files(type, n_primary, n_data, skew) ==
    [type |-> type,
     primary |-> [i \in 1..n_primary |-> StampOf(i - 1) + skew],
     data |-> [i \in 1..n_data |-> Line(type, i - 1)]]

FileSets(type) ==
    {Files(type, p, n, k) : p \in 1..MaxFiles, n \in 1..MaxFiles, k \in 0..MaxSkew}

DiskInit ==
    /\ AssocIdle
    /\ RaceIdle
    /\ gt = [type |-> "none"]
    /\ last = [op |-> "none"]
    /\ snapshot = [taken |-> FALSE]
    /\ \E type \in {"tum", "euroc"} : src \in FileSets(type)
    /\ sidecar = [exists |-> FALSE]
    /\ builder = [type |-> "none"]

\* a dataset object is constructed over the location
Open ==
    /\ LET o == OpenDataset(src, sidecar)
           obj == [type |-> src.type, start_frame_id |-> 0, data |-> src.data,
                   data_timestamps |-> <<>>, num_frames |-> Len(src.primary),
                   association_matches |-> o.association_matches,
                   trajectory |-> NoArray, timestamps |-> NoArray]
       IN /\ gt' = obj
          /\ sidecar' = o.sidecar
          /\ builder' = IF o.computed THEN obj ELSE builder
          /\ last' = [op |-> "__init__", computed |-> o.computed]
    /\ UNCHANGED <<src, snapshot, assoc_vars, race_vars>>

\* the source files of the location are replaced
ChangeSource ==
    /\ src' \in FileSets(src.type) \ {src}
    /\ last' = [op |-> "changeSource"]
    /\ UNCHANGED <<gt, sidecar, builder, snapshot, assoc_vars, race_vars>>

\* the caller deletes the sidecar
DeleteSidecar ==
    /\ sidecar.exists
    /\ sidecar' = [exists |-> FALSE]
    /\ builder' = [type |-> "none"]
    /\ last' = [op |-> "deleteSidecar"]
    /\ UNCHANGED <<gt, src, snapshot, assoc_vars, race_vars>>

DiskNext == Open \/ ChangeSource \/ DeleteSidecar

SpecCache == DiskInit /\ [][DiskNext]_vars

\* ------------------------------------------------- properties of associate
\* Every index pair within the threshold, as <<time_diff, ia, ib>>.
CandidateSet ==
    {<<Abs(first_list[ia + 1] - (second_list[ib + 1] + offset)), ia, ib>> :
        ia \in 0..(Len(first_list) - 1), ib \in 0..(Len(second_list) - 1)}
    \cap {c \in (Nat \X Nat \X Nat) : c[1] < max_difference}

\* c comes before d in the order ascending by (time_diff, ia, ib)
Before(c, d) ==
    \/ c[1] < d[1]
    \/ c[1] = d[1] /\ (c[2] < d[2] \/ (c[2] = d[2] /\ c[3] < d[3]))

\* The pairs an in-order scan claims: a candidate is claimed exactly when no
\* candidate before it that was claimed shares its ia or its ib.
GreedySelection ==
    CHOOSE S \in SUBSET CandidateSet :
        \A c \in CandidateSet :
            c \in S <=> \A d \in S : Before(d, c) => (d[2] # c[2] /\ d[3] # c[3])

\* the entries of a dict of match values, as <<ia, ib, time_diff>>
Entries(m) == {<<ia, Item(m[ia], 0), Item(m[ia], 1)>> : ia \in DOMAIN m}

IsExampleRun ==
    /\ first_list = ExampleInput.first
    /\ second_list = ExampleInput.second
    /\ offset = ExampleInput.off
    /\ max_difference = ExampleInput.maxd

\* C1: associate returns exactly the map of the in-order greedy scan over the
\* candidates sorted by (time_diff, ia, ib), the missing count is the number of
\* primary indices without an entry, and the worked example gives
\* {0: (0, 0.05), 1: (1, 0.02)} with one missing association.
C1_AssociateIsGreedyScan ==
    pc = "done" =>
        /\ Entries(matches) = {<<c[2], c[3], c[1]>> : c \in GreedySelection}
        /\ num_missing_associations =
              Cardinality((0..(Len(first_list) - 1)) \ DOMAIN matches)
        /\ IsExampleRun =>
              /\ Entries(matches) = {<<0, 0, 5>>, <<1, 1, 2>>}
              /\ num_missing_associations = 1

C1_Witness ==
    /\ pc = "done"
    /\ IsExampleRun
    /\ DOMAIN matches = {0, 1}

\* C2: at every step of the scan and in the result, no two primary indices
\* share a secondary index (and a primary index has one entry only).
C2_Injective ==
    /\ \A ia1, ia2 \in DOMAIN matches :
          Item(matches[ia1], 0) = Item(matches[ia2], 0) => ia1 = ia2
    /\ Cardinality(Entries(matches)) = Cardinality(DOMAIN matches)

\* a primary index lost its only candidates to other primary indices
C2_Witness ==
    /\ pc = "done"
    /\ \E i \in 1..Len(potential_matches) :
          /\ potential_matches[i][2] \notin DOMAIN matches
          /\ \E ia \in DOMAIN matches :
                Item(matches[ia], 0) = potential_matches[i][3]

\* C3: every entry's time_diff is the shifted absolute difference of its two
\* timestamps and is strictly below max_difference.
C3_BelowThreshold ==
    \A ia \in DOMAIN matches :
        LET ib == Item(matches[ia], 0)
        IN /\ ib \in 0..(Len(second_list) - 1)
           /\ Item(matches[ia], 1) =
                 Abs(first_list[ia + 1] - (second_list[ib + 1] + offset))
           /\ Item(matches[ia], 1) < max_difference

\* a pair exactly at the threshold exists and neither of its ends is matched
C3_Witness ==
    /\ pc = "done"
    /\ \E ia \in 0..(Len(first_list) - 1), ib \in 0..(Len(second_list) - 1) :
          /\ Abs(first_list[ia + 1] - (second_list[ib + 1] + offset)) = max_difference
          /\ ia \notin DOMAIN matches
          /\ \A k \in DOMAIN matches : Item(matches[k], 0) # ib

\* ------------------------------------- properties of the frame reconstruction
NumSamples == Len(gt.data)

\* Index idx has a record: a line of the file for a directly indexed source,
\* a map entry leading to a line for an associated one.
Resolvable(idx) ==
    IF Associated(gt.type)
    THEN /\ idx \in DOMAIN gt.association_matches
         /\ Item(gt.association_matches[idx], 0) \in 0..(NumSamples - 1)
    ELSE idx \in 0..(NumSamples - 1)

\* the line of the record resolved for index idx
ResolvedLine(idx) ==
    IF Associated(gt.type)
    THEN gt.data[Item(gt.association_matches[idx], 0) + 1]
    ELSE gt.data[idx + 1]

\* timestamp and position held by the record resolved for index idx
ResolvedStamp(idx) ==
    IF gt.type = "kitti" THEN gt.data_timestamps[idx + 1] ELSE ResolvedLine(idx)[1]

ResolvedPos(idx) ==
    IF gt.type = "kitti"
    THEN <<ResolvedLine(idx)[4], ResolvedLine(idx)[8], ResolvedLine(idx)[12]>>
    ELSE <<ResolvedLine(idx)[2], ResolvedLine(idx)[3], ResolvedLine(idx)[4]>>

Distance(p, q) ==
    Sqrt((p[1] - q[1]) * (p[1] - q[1]) + (p[2] - q[2]) * (p[2] - q[2])
         + (p[3] - q[3]) * (p[3] - q[3]))

\* C4: reconstruct(frame_id) applies the start offset exactly once: timestamp
\* and position come from the record resolved for frame_id + start_frame_id,
\* and abs_scale from that record and the one resolved for the index before.
C4_OffsetAppliedOnce ==
    (last.op = "getTimePoseAndAbsoluteScale") =>
        LET idx == last.frame_id + gt.start_frame_id
        IN (Resolvable(idx) /\ Resolvable(idx - 1)) =>
              /\ last.out.raised = None
              /\ last.out.value[1] = ResolvedStamp(idx)
              /\ <<last.out.value[2], last.out.value[3], last.out.value[4]>>
                    = ResolvedPos(idx)
              /\ last.out.value[5] = Distance(ResolvedPos(idx), ResolvedPos(idx - 1))

\* C5: a single-frame reconstruct whose current or predecessor index has no
\* record (negative, beyond the records, or absent from the map) raises an
\* out-of-range error and returns nothing.
C5_OutOfRangeRaises ==
    (last.op = "getTimePoseAndAbsoluteScale") =>
        LET idx == last.frame_id + gt.start_frame_id
        IN (~Resolvable(idx) \/ ~Resolvable(idx - 1)) =>
              last.out.raised \in {"IndexError", "KeyError"}

\* the object as it was before the test popped its association
BeforeRemoval ==
    [gt EXCEPT !.association_matches = DictSet(@, snapshot.k, snapshot.entry)]

\* the test of C6 has run: a mid-sequence association was popped from a
\* complete map and the trajectory was extracted again
RemovalTested ==
    /\ snapshot.taken
    /\ last.op = "getFull3dTrajectory"
    /\ 1 < snapshot.k
    /\ snapshot.k < NumSamples - 2

\* the frames that were extracted before and read the popped entry
LostFrames ==
    {i \in 1..(NumSamples - 2) :
        /\ i + gt.start_frame_id \in {snapshot.k, snapshot.k + 1}
        /\ GetTimePoseAndAbsoluteScale(BeforeRemoval, i).raised = None}

\* C6 as claimed: after a mid-sequence association is removed, full_trajectory()
\* does not raise and both sequences are shorter by exactly one element.
C6_ShorterByOne ==
    RemovalTested =>
        /\ last.out.raised = None
        /\ Len(last.out.timestamps) = Len(snapshot.timestamps) - 1
        /\ Len(last.out.trajectory) = Len(snapshot.trajectory) - 1

\* C6 amended: full_trajectory() does not raise and both sequences are shorter
\* by one element for every frame extracted before that read the removed entry,
\* as its own record (frame k) or as its predecessor (frame k + 1): by two
\* when start_frame_id is 0 and both frames were extracted before.
C6_ShorterByLostFrames ==
    RemovalTested =>
        /\ last.out.raised = None
        /\ Len(last.out.timestamps) = Len(snapshot.timestamps) - Cardinality(LostFrames)
        /\ Len(last.out.trajectory) = Len(snapshot.trajectory) - Cardinality(LostFrames)
        /\ Cardinality(LostFrames) <= 2
        /\ (/\ gt.start_frame_id = 0
            /\ \A i \in {snapshot.k, snapshot.k + 1} :
                  GetTimePoseAndAbsoluteScale(BeforeRemoval, i).raised = None)
           => Len(last.out.timestamps) = Len(snapshot.timestamps) - 2

C6_Witness ==
    /\ RemovalTested
    /\ gt.start_frame_id = 0
    /\ Len(snapshot.timestamps) = NumSamples - 2
    /\ Len(last.out.timestamps) = NumSamples - 4

\* the frames of the extraction whose reconstruction succeeds
GoodFrames ==
    {i \in 1..(NumSamples - 2) : GetTimePoseAndAbsoluteScale(gt, i).raised = None}

\* the j-th good frame in ascending order
NthGoodFrame(j) ==
    CHOOSE i \in GoodFrames : Cardinality({h \in GoodFrames : h < i}) = j - 1

\* C7: full_trajectory() never raises and returns, in ascending frame order,
\* one (point, timestamp) pair for each frame 1..(sample count - 2) whose
\* reconstruction succeeds and none for the others; the two sequences have the
\* same length and order, and are the ones kept on the object.
C7_TrajectorySkipsFailures ==
    (last.op = "getFull3dTrajectory") =>
        /\ last.out.raised = None
        /\ Len(last.out.timestamps) = Cardinality(GoodFrames)
        /\ Len(last.out.trajectory) = Len(last.out.timestamps)
        /\ \A j \in 1..Len(last.out.timestamps) :
              LET r == GetTimePoseAndAbsoluteScale(gt, NthGoodFrame(j))
              IN /\ last.out.timestamps[j] = r.value[1]
                 /\ last.out.trajectory[j] = <<r.value[2], r.value[3], r.value[4]>>
        /\ gt.timestamps = Array(last.out.timestamps)
        /\ gt.trajectory = Array(last.out.trajectory)

\* an extraction that skipped a frame between two frames it kept
C7_Witness ==
    /\ last.op = "getFull3dTrajectory"
    /\ \E a, b, c \in 1..(NumSamples - 2) :
          /\ a < b /\ b < c
          /\ a \in GoodFrames /\ c \in GoodFrames /\ b \notin GoodFrames

\* C8: during the trajectory export, which overrides the scale of sample 0,
\* no negative index is handed to the frame accessor or resolved by it.
C8_ExportNeverNegative ==
    (last.op = "convertToSimpleXYZ") =>
        /\ \A j \in 1..Len(last.out.args) : last.out.args[j] >= 0
        /\ \A j \in 1..Len(last.out.reads) : last.out.reads[j] >= 0


\* ------------------------------------- two constructors over one location
\* The constructors of TumGroundTruth / EurocGroundTruth, one step per file
\* system call.  Between open(..., 'w') and the end of the with block the
\* file exists and holds a proper prefix of the JSON text, which never closes
\* the object and so never parses: such a file is "not complete".
Instances == {1, 2}

\* the file right after open(associations_file, 'w')
TruncatedFile == [exists |-> TRUE, complete |-> FALSE, text |-> JsonDump(EmptyDict)]

\* the file after json.dump(m, f) and the close of the with block
WrittenFile(m) == [exists |-> TRUE, complete |-> TRUE, text |-> JsonDump(m)]

\* mutant: a file that is not complete reads as an empty map
ReadSidecar_Tolerant(sc) ==
    Return(IF sc.complete THEN IntKeys(JsonLoad(sc.text)) ELSE EmptyDict)

\* json.load(f) and the int(k) comprehension on the file as it is now
ReadSidecar(sc) ==
    IF sc.complete THEN Return(IntKeys(JsonLoad(sc.text)))
    ELSE Raise("JSONDecodeError")

\* a constructor that has read the source files and not yet looked for the
\* sidecar
Fresh == [pc |-> "start", computed |-> FALSE, association_matches |-> EmptyDict,
          raised |-> None]

Terminal(r) == r.pc \in {"done", "failed"}

RaceInit ==
    /\ AssocIdle
    /\ ReconIdle
    /\ builder = [type |-> "none"]
    /\ \E type \in {"tum", "euroc"} : src \in FileSets(type)
    /\ sidecar = [exists |-> FALSE]
    /\ inst = [i \in Instances |-> Fresh]
    /\ log = {}

\* if not os.path.exists(associations_file): ... else: ...
CheckSidecar(i) ==
    /\ inst[i].pc = "start"
    /\ inst' = [inst EXCEPT ![i].pc = IF SidecarExists(sidecar) THEN "load"
                                      ELSE "compute"]
    /\ UNCHANGED <<sidecar, log, src, builder, assoc_vars, recon_vars>>

\* self.association_matches = self.associate(...)
ComputeAssociations(i) ==
    /\ inst[i].pc = "compute"
    /\ inst' = [inst EXCEPT ![i].pc = "open",
                            ![i].computed = TRUE,
                            ![i].association_matches =
                                Associate(src.type, src.primary, Stamps(src.data), 0,
                                          kMaxDifference)]
    /\ UNCHANGED <<sidecar, log, src, builder, assoc_vars, recon_vars>>

\* with open(associations_file, 'w') as f: the file is created or emptied
OpenForWrite(i) ==
    /\ inst[i].pc = "open"
    /\ sidecar' = TruncatedFile
    /\ inst' = [inst EXCEPT ![i].pc = "dump"]
    /\ UNCHANGED <<log, src, builder, assoc_vars, recon_vars>>

\* json.dump(self.association_matches, f) and the close that ends the block
DumpAndClose(i) ==
    /\ inst[i].pc = "dump"
    /\ sidecar' = WrittenFile(inst[i].association_matches)
    /\ inst' = [inst EXCEPT ![i].pc = "done"]
    /\ UNCHANGED <<log, src, builder, assoc_vars, recon_vars>>

\* with open(associations_file, 'r') as f: json.load(f) and the int(k) keys;
\* an exception leaves the constructor
LoadSidecar(i) ==
    /\ inst[i].pc = "load"
    /\ LET r == ReadSidecar(sidecar)
       IN inst' = IF r.raised # None
                  THEN [inst EXCEPT ![i].pc = "failed", ![i].raised = r.raised]
                  ELSE [inst EXCEPT ![i].pc = "done",
                                    ![i].association_matches = r.value]
    /\ UNCHANGED <<sidecar, log, src, builder, assoc_vars, recon_vars>>

\* both constructors have ended: the caller deletes the sidecar and
\* constructs two instances again
Restart ==
    /\ \A i \in Instances : Terminal(inst[i])
    /\ Cardinality(log) < MaxRounds
    /\ log' = log \cup {inst}
    /\ inst' = [i \in Instances |-> Fresh]
    /\ sidecar' = [exists |-> FALSE]
    /\ UNCHANGED <<src, builder, assoc_vars, recon_vars>>

RaceNext ==
    \/ \E i \in Instances : CheckSidecar(i)
    \/ \E i \in Instances : ComputeAssociations(i)
    \/ \E i \in Instances : OpenForWrite(i)
    \/ \E i \in Instances : DumpAndClose(i)
    \/ \E i \in Instances : LoadSidecar(i)
    \/ Restart

SpecRace == RaceInit /\ [][RaceNext]_vars

\* ------------------------------------------------ properties of the sidecar
\* the entries of a map as <<key, items>>, whatever container holds the items
MapItems(m) == {<<k, m[k].items>> : k \in DOMAIN m}

\* the map a sidecar text stores: integer keys and the numbers of each array
StoredItems(text) ==
    {<<ParseNumber(ks), [j \in 1..Len(text[ks]) |-> ParseNumber(text[ks][j])]>> :
        ks \in DOMAIN text}

\* what associate returns on the files now at the location
FreshMatches ==
    Associate(src.type, src.primary, Stamps(src.data), 0, kMaxDifference)

\* C9: an open runs associate if and only if the sidecar is absent, and then
\* leaves a sidecar holding the computed map; an open that finds the sidecar
\* leaves it as it is and uses the map stored in it, whatever the source
\* files now hold.
C9_ComputeIffSidecarAbsent ==
    [][(last'.op = "__init__") =>
         /\ last'.computed <=> ~sidecar.exists
         /\ ~sidecar.exists =>
               /\ gt'.association_matches = FreshMatches
               /\ sidecar'.exists
               /\ StoredItems(sidecar'.text) = MapItems(gt'.association_matches)
         /\ sidecar.exists =>
               /\ sidecar' = sidecar
               /\ MapItems(gt'.association_matches) = StoredItems(sidecar.text)]_vars

\* an open loaded a sidecar built from other source files, and the map it
\* uses is not the one associate would compute now
C9_Witness ==
    /\ last.op = "__init__"
    /\ ~last.computed
    /\ builder.data # gt.data
    /\ MapItems(gt.association_matches) # MapItems(FreshMatches)

\* C10: the sidecar stores every entry of the map that was serialized into it
\* (integer keys, the same items in the same order), and an open that loads it
\* uses a map with the same keys and the same items as the open that built it.
C10_RoundTrip ==
    sidecar.exists =>
        /\ StoredItems(sidecar.text) = MapItems(builder.association_matches)
        /\ (last.op = "__init__" /\ ~last.computed) =>
              /\ DOMAIN gt.association_matches = DOMAIN builder.association_matches
              /\ DOMAIN gt.association_matches \subseteq Nat
              /\ \A k \in DOMAIN gt.association_matches :
                    gt.association_matches[k].items
                       = builder.association_matches[k].items

\* a later open loaded a TUM sidecar of two entries, whose items have
\* several digits
C10_Witness ==
    /\ sidecar.exists
    /\ last.op = "__init__"
    /\ ~last.computed
    /\ Cardinality(DOMAIN gt.association_matches) = 2
    /\ \E k \in DOMAIN gt.association_matches :
          /\ Len(gt.association_matches[k].items) = 4
          /\ gt.association_matches[k].items[3] > 10
          /\ gt.association_matches[k].items[2] > 0

\* C12: the trajectory export runs to completion for every source kind and
\* start_frame_id >= 0: it writes one line per sample, line j for sample j
\* (the timestamp of the record resolved for j + start_frame_id), and the
\* scale field of the first line is 1.
C12_ExportCompletes ==
    (last.op = "convertToSimpleXYZ") =>
        /\ last.out.raised = None
        /\ Len(last.out.lines) = NumSamples
        /\ \A j \in 0..(Len(last.out.lines) - 1) :
              /\ Resolvable(j + gt.start_frame_id)
              /\ last.out.lines[j + 1][1] = ResolvedStamp(j + gt.start_frame_id)
        /\ last.out.lines[1][5] = 1

\* ------------------------------------------------------ closest timestamp
\* |t - timestamp| for element i (1-based) of a timestamp sequence
QueryDiff(ts, i, timestamp) == Abs(ts[i] - timestamp)

\* position i holds a minimum of |t - timestamp| and no earlier position does
FirstClosest(ts, i, timestamp) ==
    /\ \A j \in 1..Len(ts) : QueryDiff(ts, i, timestamp) <= QueryDiff(ts, j, timestamp)
    /\ \A j \in 1..(i - 1) : QueryDiff(ts, j, timestamp) > QueryDiff(ts, i, timestamp)

\* C11: a call of getClosestTimestamp runs getFull3dTrajectory exactly when no
\* timestamp array is kept on the object yet (it then keeps the arrays that
\* run yields, and otherwise leaves the object as it is), and, the kept array
\* being non-empty, returns the element of it at the first position where
\* |t - timestamp| is minimal.
C11_ClosestTimestamp ==
    [][(last'.op = "getClosestTimestamp") =>
          /\ last'.built <=> gt.timestamps.none
          /\ gt.timestamps.none =>
                /\ gt'.timestamps = Array(GetFull3dTrajectory(gt).timestamps)
                /\ gt'.trajectory = Array(GetFull3dTrajectory(gt).trajectory)
          /\ ~gt.timestamps.none => gt' = gt
          /\ Len(gt'.timestamps.items) > 0 =>
                /\ last'.raised = None
                /\ \E i \in 1..Len(gt'.timestamps.items) :
                      /\ FirstClosest(gt'.timestamps.items, i, last'.timestamp)
                      /\ last'.value = gt'.timestamps.items[i]]_vars

\* a call that built the arrays and found two timestamps equally close
C11_Witness ==
    /\ last.op = "getClosestTimestamp"
    /\ last.built
    /\ last.raised = None
    /\ \E i, j \in 1..Len(gt.timestamps.items) :
          /\ i < j
          /\ FirstClosest(gt.timestamps.items, i, last.timestamp)
          /\ QueryDiff(gt.timestamps.items, j, last.timestamp)
                = QueryDiff(gt.timestamps.items, i, last.timestamp)
          /\ last.value = gt.timestamps.items[i]

\* ------------------------------------------------- racing constructors
\* another constructor has created the sidecar and not finished writing it
Unfinished(i) ==
    /\ sidecar.exists
    /\ ~sidecar.complete
    /\ \E j \in Instances \ {i} : inst[j].pc = "dump"

\* C13: two constructors over one location race on the sidecar.  The check,
\* the computation and the write are steps of their own: a constructor's
\* check takes the computing branch exactly when the file does not exist at
\* that moment, whatever the other constructor has decided or computed, and
\* a constructor that found the file fails with a parse error exactly when
\* the other one has created the file and not finished writing it; otherwise
\* it loads the map associate computes.
C13_SidecarRace ==
    [][\A i \in Instances :
          /\ (inst[i].pc = "start" /\ inst'[i].pc # "start") =>
                (inst'[i].pc = "compute" <=> ~sidecar.exists)
          /\ (inst[i].pc = "load" /\ inst'[i].pc # "load") =>
                /\ (inst'[i].pc = "failed" /\ inst'[i].raised = "JSONDecodeError")
                      <=> Unfinished(i)
                /\ ~Unfinished(i) =>
                      /\ inst'[i].pc = "done"
                      /\ MapItems(inst'[i].association_matches) = MapItems(FreshMatches)]_vars

\* in the round r both constructors saw no sidecar, computed and wrote it
BothWrote(r) == \A i \in Instances : r[i].pc = "done" /\ r[i].computed

\* an earlier round ended with both constructors having computed and written
\* the sidecar; in this round one constructor has just failed to parse the
\* file the other one has created and not finished writing
C13_Witness ==
    /\ \E r \in log : BothWrote(r)
    /\ \E i \in Instances :
          /\ inst[i].pc = "failed"
          /\ inst[i].raised = "JSONDecodeError"
          /\ ~inst[i].computed
          /\ Unfinished(i)

\* ------------------------------------------------------ maximal matching
\* the secondary indices within the threshold of primary index ia
WithinThreshold(ia) ==
    {ib \in 0..(Len(second_list) - 1) :
        Abs(first_list[ia + 1] - (second_list[ib + 1] + offset)) < max_difference}

\* the secondary indices some entry of the map points to
Targets(m) == {Item(m[ia], 0) : ia \in DOMAIN m}

\* C14: the map associate returns is a maximal matching of the candidate
\* pairs: no pair within the threshold has its primary index without an entry
\* and its secondary index the target of no entry; a primary index counted as
\* missing has every secondary index within its threshold claimed by another
\* primary index.
C14_MaximalMatching ==
    pc = "done" =>
        /\ \A ia \in 0..(Len(first_list) - 1) :
              \A ib \in WithinThreshold(ia) :
                  ia \in DOMAIN matches \/ ib \in Targets(matches)
        /\ \A ia \in 0..(Len(first_list) - 1) :
              ~first_flag[ia + 1] =>
                  /\ ia \notin DOMAIN matches
                  /\ \A ib \in WithinThreshold(ia) :
                        \E other \in DOMAIN matches \ {ia} :
                            Item(matches[other], 0) = ib

\* a primary index is missing although a secondary index lies within its
\* threshold, and a secondary index farther away is left without a partner
C14_Witness ==
    /\ pc = "done"
    /\ num_missing_associations > 0
    /\ \E ia \in 0..(Len(first_list) - 1) :
          /\ ia \notin DOMAIN matches
          /\ WithinThreshold(ia) # {}
          /\ WithinThreshold(ia) \subseteq Targets(matches)
    /\ (0..(Len(second_list) - 1)) \ Targets(matches) # {}

====
